---- MODULE Spec2Model ----
(***************************************************************************)
(* Order-management backend of the Equine shop (src/server.js, the final   *)
(* revision of the file: lines 423-631).  The state is the two MongoDB     *)
(* collections (orders, carts), the wall clock, the startup state of the   *)
(* process, the requests whose handler is suspended at its single `await`, *)
(* and the response of the request that completed last.                    *)
(*                                                                         *)
(* Every handler runs synchronously up to one `await` of one store         *)
(* operation and answers from its result.  Spec takes each handler as one  *)
(* step, at the moment the store serves that operation.  Concurrent splits *)
(* Create into the part before its await (the id is drawn, the document    *)
(* built) and the save after it, with other requests interleaved between.  *)
(* CartSpec is the cart endpoints with the store's retention policy; the   *)
(* two collections share no handler, so it leaves the orders alone.        *)
(* AdminSpec is the admin endpoints under either setting of the secret.    *)
(* CartConcurrent splits Replace at its await, FairCartSpec is CartSpec    *)
(* with a TTL monitor that keeps running, and ShopSpec serves requests of  *)
(* every kind, order, login and cart, against one store.  GateSpec calls   *)
(* the admin endpoints with and without the token login hands out.         *)
(*                                                                         *)
(* Strings the code builds or inspects (order ids, passwords) are          *)
(* sequences of one-character strings; strings it only stores or compares  *)
(* as a whole (status, names, items) are TLA+ strings.                     *)
(***************************************************************************)
EXTENDS Integers, Sequences, FiniteSets, Bags, TLC

VARIABLES
    conn,       \* mongoose.connect: "connecting" | "connected" | "failed"
    listening,  \* app.listen has been called
    adminEnv,   \* process.env.ADMIN_PASSWORD (<<>> when unset or empty)
    now,        \* Date.now(), in milliseconds since startup
    orders,     \* the Order collection, a bag of documents
    carts,      \* the Cart collection, a bag of documents
    pending,    \* handlers suspended at their await, a bag of requests
    last,       \* the response sent last, with the request it answers
    audit       \* history: what completed writes told their callers

vars == <<conn, listening, adminEnv, now, orders, carts, pending, last,
          audit>>

----------------------------------------------------------------------------
(* Bounds of the model *)

MaxInflight == 2
MaxOrders == 2
MaxSkew == 1
MaxWindows == 1
RandDen == 10000

----------------------------------------------------------------------------
(* Strings *)

Digit(d) == CASE d = 0 -> "0" [] d = 1 -> "1" [] d = 2 -> "2" [] d = 3 -> "3"
              [] d = 4 -> "4" [] d = 5 -> "5" [] d = 6 -> "6" [] d = 7 -> "7"
              [] d = 8 -> "8" [] d = 9 -> "9"

Digits == {"0", "1", "2", "3", "4", "5", "6", "7", "8", "9"}

RECURSIVE NumToStr(_)
\* JavaScript's string conversion of a non-negative integer ('EQ-' + n).
NumToStr(n) == IF n < 10 THEN <<Digit(n)>>
               ELSE NumToStr(n \div 10) \o <<Digit(n % 10)>>

DigitVal(c) == CHOOSE d \in 0..9 : Digit(d) = c

RECURSIVE StrToNum(_)
StrToNum(s) == IF s = <<>> THEN 0
               ELSE 10 * StrToNum(SubSeq(s, 1, Len(s) - 1)) + DigitVal(s[Len(s)])

IsDigits(s) == \A i \in 1..Len(s) : s[i] \in Digits

\* JavaScript truthiness of a string-valued field: undefined, null and ''
\* are all falsy; the model writes all three as the empty sequence.
Truthy(s) == s # <<>>

None == <<>>
Some(x) == <<x>>

----------------------------------------------------------------------------
(* Inputs: the values requests carry *)

EqPrefix == <<"E", "Q", "-">>
Dash == <<"-">>

\* Math.random() twice, each result k / RandDen.
RandDraws == {<<0, 0>>, <<9999, 9999>>}

IdLow == EqPrefix \o NumToStr(1000) \o Dash \o NumToStr(100)
IdHigh == EqPrefix \o NumToStr(9999) \o Dash \o NumToStr(999)
IdShort == EqPrefix \o NumToStr(1000)
IdForeign == <<"O", "R", "D", "E", "R", "1">>

\* Request bodies of POST /api/orders.  orderId '' stands for an absent,
\* null or empty orderId; a total of kind "str" is a non-numeric string.
Payloads ==
    { [orderId |-> None, customerName |-> None, status |-> None,
       total |-> [kind |-> "num", val |-> 100]],
      [orderId |-> IdLow, customerName |-> Some("Ann"), status |-> None,
       total |-> [kind |-> "num", val |-> 250]],
      [orderId |-> IdForeign, customerName |-> None,
       status |-> Some("Awaiting Payment"),
       total |-> [kind |-> "num", val |-> 100]],
      [orderId |-> None, customerName |-> None, status |-> None,
       total |-> [kind |-> "str", val |-> 0]] }

\* :orderId of the upload, status and track routes.
TargetIds == {IdLow, IdHigh, IdShort, IdForeign}

\* status of PUT /api/admin/orders/:orderId/status.
StatusInputs == {"Shipped", "Awaiting Payment"}

\* The uploaded file's original extension, or no file in the request.
FileExts == {".jpg", ".png"}
Protocols == {"https"}
Hosts == {"equine.example"}

\* password of POST /api/admin/login; None is a body without password.
DefaultPassword ==
    <<"e", "q", "u", "i", "n", "e", "a", "d", "m", "i", "n", "1", "2", "3">>
Secret == <<"T", "a", "c", "k", "9">>
PasswordInputs ==
    { None, DefaultPassword, Secret,
      SubSeq(DefaultPassword, 1, 11),
      DefaultPassword \o <<"4">>,
      <<"t", "a", "c", "k", "9">>,
      <<"E">> \o Tail(DefaultPassword) }

\* :sessionId and items of the cart routes.
Sessions == {"s1", "s2"}
ItemSeqs == {<<>>, <<"saddle">>, <<"bridle", "saddle">>}

\* items of the Replace requests that race each other.
RacingItems == {<<"saddle">>, <<"bridle", "saddle">>}

----------------------------------------------------------------------------
(* Order schema and id generation *)

DefaultStatus == "Pending Verification"
DefaultName == "Guest"
ReceiptStatus == "Pending Verification"

\* Math.floor(lo + Math.random() * span) for Math.random() = k / RandDen.
RandomInt(lo, span, k) == lo + ((k * span) \div RandDen)

\* Faulty variant: the id of an earlier revision, 'EQ-' + 4 digits.
GenerateOrderIdShort(r) == EqPrefix \o NumToStr(RandomInt(1000, 9000, r[1]))

GenerateOrderId(r) ==
    EqPrefix \o NumToStr(RandomInt(1000, 9000, r[1]))
             \o Dash \o NumToStr(RandomInt(100, 900, r[2]))

\* if (!orderData.orderId) orderData.orderId = 'EQ-' + ... 
AssignOrderId(p, r) ==
    IF ~Truthy(p.orderId) THEN GenerateOrderId(r) ELSE p.orderId

\* Mongoose's cast of the payload against orderSchema: a Number path
\* rejects a non-numeric string (the error surfaces from save()).
CastsToSchema(p) == p.total.kind = "num"

\* new Order(orderData): the schema's defaults fill what the payload omits,
\* createdAt is Date.now() at construction.
NewOrder(p, id, t) ==
    [orderId |-> id,
     customerName |-> IF p.customerName = None THEN DefaultName
                      ELSE p.customerName[1],
     total |-> p.total.val,
     status |-> IF p.status = None THEN DefaultStatus ELSE p.status[1],
     receiptImg |-> None,
     createdAt |-> t]

----------------------------------------------------------------------------
(* The collections *)

Docs(coll) == BagToSet(coll)
Insert(coll, d) == coll (+) SetToBag({d})
Remove(coll, d) == coll (-) SetToBag({d})
Replace(coll, d, e) == Insert(Remove(coll, d), e)

\* Faulty variant: the filter matches ids that start with the requested one.
MatchesOrderIdPrefix(d, id) ==
    /\ Len(id) <= Len(d.orderId)
    /\ SubSeq(d.orderId, 1, Len(id)) = id

\* Order.findOne / findOneAndUpdate filter { orderId: id }: exact match.
MatchesOrderId(d, id) == d.orderId = id

\* Faulty variant: the filter names no field of the schema and matches every order.
FindAnyOrder(id) == Docs(orders)

FindOrders(id) == {d \in Docs(orders) : MatchesOrderId(d, id)}

\* Faulty variant: no unique index on orderId.
NoUniqueIndex(d) == FALSE

\* The unique index of orderSchema.orderId: an insert whose key is already
\* present is rejected with a duplicate-key error.
DuplicateKey(d) == \E e \in Docs(orders) : e.orderId = d.orderId

----------------------------------------------------------------------------
(* Startup and clock *)

ExpireAfterSeconds == 86400
ExpireMs == ExpireAfterSeconds * 1000

\* The clock advances by a millisecond or by a whole retention window.
TickSteps == {1, ExpireMs}

\* ADMIN_PASSWORD as the environment may set it.
AdminEnvs == {None, Secret}

InitWith(env) ==
    /\ conn = "connecting"
    /\ listening = FALSE
    /\ adminEnv = env
    /\ now = 0
    /\ orders = EmptyBag
    /\ carts = EmptyBag
    /\ pending = EmptyBag
    /\ last = [op |-> "none"]
    /\ audit = [created |-> {},
                origin |-> {},
                statusSet |-> [id \in TargetIds |-> None],
                receiptSet |-> [id \in TargetIds |-> None],
                cartSet |-> [sid \in Sessions |-> None],
                cartEnd |-> [sid \in Sessions |-> None],
                logins |-> {}]

\* The deployment without ADMIN_PASSWORD (the fallback of line 537).
Init == InitWith(None)

InitAdmin == \E env \in AdminEnvs : InitWith(env)

\* mongoose.connect(...).then(() => app.listen(PORT))
ConnectOk ==
    /\ conn = "connecting"
    /\ conn' = "connected"
    /\ listening' = TRUE
    /\ UNCHANGED <<adminEnv, now, orders, carts, pending, last, audit>>

\* Faulty variant: app.listen is called whatever the connection does.
ConnectFailListen ==
    /\ conn = "connecting"
    /\ conn' = "failed"
    /\ listening' = TRUE
    /\ UNCHANGED <<adminEnv, now, orders, carts, pending, last, audit>>

\* .catch(err => console.error(...)): the process never listens.
ConnectFail ==
    /\ conn = "connecting"
    /\ conn' = "failed"
    /\ UNCHANGED <<listening, adminEnv, now, orders, carts, pending, last, audit>>

Tick(d) ==
    /\ d = 1 => now % ExpireMs < MaxSkew
    /\ d = ExpireMs => now \div ExpireMs < MaxWindows
    /\ now' = now + d
    /\ UNCHANGED <<conn, listening, adminEnv, orders, carts, pending, last, audit>>

CanAccept == listening /\ BagCardinality(pending) < MaxInflight

----------------------------------------------------------------------------
(* POST /api/orders *)

PendingCreates == {q \in BagToSet(pending) : q.op = "create"}
CreatesInFlight ==
    LET f[S \in SUBSET PendingCreates] ==
          IF S = {} THEN 0
          ELSE LET q == CHOOSE x \in S : TRUE
               IN CopiesIn(q, pending) + f[S \ {q}]
    IN f[PendingCreates]

\* The model stops issuing Create requests at MaxOrders orders.
RoomForOrder == BagCardinality(orders) + CreatesInFlight < MaxOrders

\* Up to the await: the id is chosen and the document constructed.
CreateRequest(p, r, t) ==
    [op |-> "create",
     generated |-> ~Truthy(p.orderId),
     valid |-> CastsToSchema(p),
     doc |-> NewOrder(p, AssignOrderId(p, r), t)]

\* await newOrder.save(): validation, then the insert under the unique
\* index; any error is caught and answered with 500.
SaveAccepts(q) == q.valid /\ ~DuplicateKey(q.doc)

\* Faulty variant: a save under an id already stored overwrites that order.
CreateSaveOverwrite(q) ==
    IF q.valid
    THEN /\ orders' = Insert([d \in {e \in Docs(orders) :
                                       e.orderId # q.doc.orderId}
                                |-> CopiesIn(d, orders)], q.doc)
         /\ last' = [op |-> "create", code |-> 201, success |-> TRUE,
                     generated |-> q.generated, valid |-> q.valid,
                     orderId |-> q.doc.orderId, order |-> q.doc]
         /\ audit' = [audit EXCEPT !.created = @ \cup {q.doc.orderId},
                                   !.origin = @ \cup {q.doc}]
    ELSE /\ orders' = orders
         /\ last' = [op |-> "create", code |-> 500, success |-> FALSE,
                     generated |-> q.generated, valid |-> q.valid,
                     orderId |-> q.doc.orderId, order |-> q.doc]
         /\ audit' = audit

CreateSave(q) ==
    IF SaveAccepts(q)
    THEN /\ orders' = Insert(orders, q.doc)
         /\ last' = [op |-> "create", code |-> 201, success |-> TRUE,
                     generated |-> q.generated, valid |-> q.valid,
                     orderId |-> q.doc.orderId, order |-> q.doc]
         /\ audit' = [audit EXCEPT !.created = @ \cup {q.doc.orderId},
                                   !.origin = @ \cup {q.doc}]
    ELSE /\ orders' = orders
         /\ last' = [op |-> "create", code |-> 500, success |-> FALSE,
                     generated |-> q.generated, valid |-> q.valid,
                     orderId |-> q.doc.orderId, order |-> q.doc]
         /\ audit' = audit

Create(p, r) ==
    /\ listening
    /\ RoomForOrder
    /\ CreateSave(CreateRequest(p, r, now))
    /\ UNCHANGED <<conn, listening, adminEnv, now, carts, pending>>

CreateBegin(p, r) ==
    /\ CanAccept
    /\ RoomForOrder
    /\ pending' = Insert(pending, CreateRequest(p, r, now))
    /\ UNCHANGED <<conn, listening, adminEnv, now, orders, carts, last, audit>>

CreateEnd(q) ==
    /\ q.op = "create"
    /\ BagIn(q, pending)
    /\ pending' = Remove(pending, q)
    /\ CreateSave(q)
    /\ UNCHANGED <<conn, listening, adminEnv, now, carts>>

----------------------------------------------------------------------------
(* POST /api/upload-receipt/:orderId *)

\* multer's filename callback: 'receipt-' + Date.now() + extname.
Filename(t, ext) == <<"receipt-", t, ext>>

\* `${req.protocol}://${req.get('host')}/uploads/${req.file.filename}`
FileUrl(protocol, host, filename) ==
    <<protocol, "://", host, "/uploads/", filename>>

\* Faulty variant: the update sets receiptImg and leaves status.
WithReceiptOnly(d, url) == [d EXCEPT !.receiptImg = Some(url)]

\* { receiptImg: fileUrl, status: 'Pending Verification' }
WithReceipt(d, url) ==
    [d EXCEPT !.receiptImg = Some(url), !.status = ReceiptStatus]

\* A request without a file: req.file is undefined, reading its filename
\* throws before the await and the catch answers 500.
UploadNoFile(id) ==
    /\ listening
    /\ last' = [op |-> "upload", code |-> 500, success |-> FALSE,
                orderId |-> id, fileUrl |-> None, order |-> None,
                before |-> None]
    /\ UNCHANGED <<conn, listening, adminEnv, now, orders, carts, pending,
                   audit>>

\* Up to the await: multer has stored the file and the URL is built.
UploadRequest(id, protocol, host, ext, t) ==
    [op |-> "upload", orderId |-> id,
     fileUrl |-> FileUrl(protocol, host, Filename(t, ext))]

\* Faulty variant: the update is an upsert, inserting a document when none matches.
UploadUpsert(q) ==
    LET fresh == [orderId |-> q.orderId, customerName |-> DefaultName,
                  total |-> 0, status |-> ReceiptStatus,
                  receiptImg |-> Some(q.fileUrl), createdAt |-> now]
    IN IF FindOrders(q.orderId) = {}
       THEN /\ orders' = Insert(orders, fresh)
            /\ audit' = audit
            /\ last' = [op |-> "upload", code |-> 200, success |-> TRUE,
                        orderId |-> q.orderId, fileUrl |-> Some(q.fileUrl),
                        order |-> Some(fresh), before |-> None]
       ELSE \E d \in FindOrders(q.orderId) :
            /\ orders' = Replace(orders, d, WithReceipt(d, q.fileUrl))
            /\ audit' = [audit EXCEPT
                            !.statusSet[q.orderId] = None,
                            !.receiptSet[q.orderId] = Some(q.fileUrl)]
            /\ last' = [op |-> "upload", code |-> 200, success |-> TRUE,
                        orderId |-> q.orderId, fileUrl |-> Some(q.fileUrl),
                        order |-> Some(WithReceipt(d, q.fileUrl)),
                        before |-> Some(d)]

\* await Order.findOneAndUpdate({ orderId }, {...}, { new: true }): null
\* when no document matches; the response is 200 either way.
UploadUpdate(q) ==
    IF FindOrders(q.orderId) = {}
    THEN /\ orders' = orders
         /\ audit' = audit
         /\ last' = [op |-> "upload", code |-> 200, success |-> TRUE,
                     orderId |-> q.orderId, fileUrl |-> Some(q.fileUrl),
                     order |-> None, before |-> None]
    ELSE \E d \in FindOrders(q.orderId) :
         /\ orders' = Replace(orders, d, WithReceipt(d, q.fileUrl))
         /\ audit' = [audit EXCEPT
                         !.statusSet[q.orderId] = None,
                         !.receiptSet[q.orderId] = Some(q.fileUrl)]
         /\ last' = [op |-> "upload", code |-> 200, success |-> TRUE,
                     orderId |-> q.orderId, fileUrl |-> Some(q.fileUrl),
                     order |-> Some(WithReceipt(d, q.fileUrl)),
                     before |-> Some(d)]

AttachReceipt(id, protocol, host, ext) ==
    /\ listening
    /\ UploadUpdate(UploadRequest(id, protocol, host, ext, now))
    /\ UNCHANGED <<conn, listening, adminEnv, now, carts, pending>>

----------------------------------------------------------------------------
(* The handlers below read nothing but the request before their single     *)
(* await: each is one step in every specification.                         *)

(* PUT /api/admin/orders/:orderId/status *)

\* Faulty variant: a status once set by the admin is final.
WithStatusOnce(d, st) ==
    IF d.status = DefaultStatus THEN [d EXCEPT !.status = st] ELSE d

\* Faulty variant: the update also rewrites createdAt.
WithStatusTouch(d, st) == [d EXCEPT !.status = st, !.createdAt = now + 1]

\* { status: status }
WithStatus(d, st) == [d EXCEPT !.status = st]

\* Faulty variant: the update is an upsert, inserting a document when none matches.
StatusUpsert(id, st) ==
    LET fresh == [orderId |-> id, customerName |-> DefaultName,
                  total |-> 0, status |-> st, receiptImg |-> None,
                  createdAt |-> now]
    IN IF FindOrders(id) = {}
       THEN /\ orders' = Insert(orders, fresh)
            /\ audit' = audit
            /\ last' = [op |-> "status", code |-> 200, success |-> TRUE,
                        orderId |-> id, status |-> st,
                        order |-> Some(fresh), before |-> None]
       ELSE \E d \in FindOrders(id) :
            /\ orders' = Replace(orders, d, WithStatus(d, st))
            /\ audit' = [audit EXCEPT !.statusSet[id] = Some(st),
                                      !.receiptSet[id] = None]
            /\ last' = [op |-> "status", code |-> 200, success |-> TRUE,
                        orderId |-> id, status |-> st,
                        order |-> Some(WithStatus(d, st)),
                        before |-> Some(d)]

\* await Order.findOneAndUpdate({ orderId }, { status }, { new: true }):
\* null when no document matches; the response is 200 either way.
StatusUpdate(id, st) ==
    IF FindOrders(id) = {}
    THEN /\ orders' = orders
         /\ audit' = audit
         /\ last' = [op |-> "status", code |-> 200, success |-> TRUE,
                     orderId |-> id, status |-> st, order |-> None,
                     before |-> None]
    ELSE \E d \in FindOrders(id) :
         /\ orders' = Replace(orders, d, WithStatus(d, st))
         /\ audit' = [audit EXCEPT !.statusSet[id] = Some(st),
                                   !.receiptSet[id] = None]
         /\ last' = [op |-> "status", code |-> 200, success |-> TRUE,
                     orderId |-> id, status |-> st,
                     order |-> Some(WithStatus(d, st)),
                     before |-> Some(d)]

UpdateStatus(id, st) ==
    /\ listening
    /\ StatusUpdate(id, st)
    /\ UNCHANGED <<conn, listening, adminEnv, now, carts, pending>>

(* GET /api/track/:orderId *)

\* Faulty variant: the response carries the receipt URL as well.
TrackBodyWithReceipt(d) ==
    [status |-> d.status, customerName |-> d.customerName,
     total |-> d.total, orderId |-> d.orderId, createdAt |-> d.createdAt,
     receiptImg |-> d.receiptImg]

\* The fields of the 200 response besides success.
TrackBody(d) ==
    [status |-> d.status, customerName |-> d.customerName,
     total |-> d.total, orderId |-> d.orderId, createdAt |-> d.createdAt]

TrackResponses(id) ==
    IF FindOrders(id) = {}
    THEN {[op |-> "track", code |-> 404, success |-> FALSE,
           orderId |-> id, body |-> None]}
    ELSE {[op |-> "track", code |-> 200, success |-> TRUE,
           orderId |-> id, body |-> Some(TrackBody(d))] :
          d \in FindOrders(id)}

Track(id) ==
    /\ listening
    /\ last' \in TrackResponses(id)
    /\ UNCHANGED <<conn, listening, adminEnv, now, orders, carts, pending,
                   audit>>

(* GET /api/admin/orders *)

RECURSIVE Listings(_)
\* Every order of a collection, each document as often as it is stored.
Listings(coll) ==
    IF coll = EmptyBag THEN {<<>>}
    ELSE UNION {{<<d>> \o rest : rest \in Listings(Remove(coll, d))} :
                d \in Docs(coll)}

\* Faulty variant: .sort({ createdAt: 1 }), oldest first.
SortedAsc(s) ==
    \A i \in 1..(Len(s) - 1) : s[i].createdAt <= s[i + 1].createdAt

\* .sort({ createdAt: -1 }): newest first; documents with equal createdAt
\* come in an unspecified order.
SortedDesc(s) ==
    \A i \in 1..(Len(s) - 1) : s[i].createdAt >= s[i + 1].createdAt

FindSorted(coll) == {s \in Listings(coll) : SortedDesc(s)}

ListAll ==
    /\ listening
    /\ \E s \in FindSorted(orders) :
          last' = [op |-> "list", code |-> 200, body |-> s]
    /\ UNCHANGED <<conn, listening, adminEnv, now, orders, carts, pending,
                   audit>>

----------------------------------------------------------------------------
(* POST /api/admin/login: synchronous, no store access *)

AdminToken == "secure_admin_session_active"

\* process.env.ADMIN_PASSWORD || 'equineadmin123'
ValidPassword == IF Truthy(adminEnv) THEN adminEnv ELSE DefaultPassword

\* Faulty variant: validPassword.startsWith(password).
PasswordMatchesPrefix(pw) ==
    /\ Len(pw) <= Len(ValidPassword)
    /\ SubSeq(ValidPassword, 1, Len(pw)) = pw

\* password === validPassword
PasswordMatches(pw) == pw = ValidPassword

LoginResponse(pw) ==
    IF PasswordMatches(pw)
    THEN [op |-> "login", code |-> 200, success |-> TRUE,
          password |-> pw, token |-> Some(AdminToken)]
    ELSE [op |-> "login", code |-> 401, success |-> FALSE,
          password |-> pw, token |-> None]

Login(pw) ==
    /\ listening
    /\ last' = LoginResponse(pw)
    /\ UNCHANGED <<conn, listening, adminEnv, now, orders, carts, pending,
                   audit>>

\* The same handler, with the outcome of the attempt kept in the history.
LoginNoted(pw) ==
    /\ listening
    /\ last' = LoginResponse(pw)
    /\ audit' = [audit EXCEPT !.logins = @ \cup {LoginResponse(pw).success}]
    /\ UNCHANGED <<conn, listening, adminEnv, now, orders, carts, pending>>

\* The Authorization header of an admin request: absent, or the token the
\* login hands out.
Tokens == {None, Some(AdminToken)}

\* Faulty variant: the route checks the token before it lists.
AdminListAllChecked(token) ==
    IF token = Some(AdminToken)
    THEN ListAll
    ELSE /\ listening
         /\ last' = [op |-> "list", code |-> 401, body |-> <<>>]
         /\ UNCHANGED <<conn, listening, adminEnv, now, orders, carts,
                        pending, audit>>

\* The admin routes are registered without middleware and their handlers
\* read no header: a request is served the same with or without a token.
AdminListAll(token) == ListAll
AdminUpdateStatus(token, id, st) == UpdateStatus(id, st)

----------------------------------------------------------------------------
(* /api/cart/:sessionId *)

\* Faulty variant: the filter names no field of the schema and matches every cart.
FindAnyCart(sid) == Docs(carts)

\* Cart.findOne / findOneAndUpdate / deleteOne filter { sessionId }.
FindCarts(sid) == {c \in Docs(carts) : c.sessionId = sid}

\* GET: the stored cart, or { sessionId, items: [] } when there is none.
CartGetBody(sid) ==
    IF FindCarts(sid) = {}
    THEN {[sessionId |-> sid, items |-> <<>>]}
    ELSE FindCarts(sid)

CartGet(sid) ==
    /\ listening
    /\ \E b \in CartGetBody(sid) :
          last' = [op |-> "cartGet", code |-> 200, sessionId |-> sid,
                   body |-> b, known |-> audit.cartSet[sid],
                   ended |-> audit.cartEnd[sid]]
    /\ UNCHANGED <<conn, listening, adminEnv, now, orders, carts, pending,
                   audit>>

\* Faulty variant: { $push: { items: { $each: items } } }, a merge.
CartUpdateMerge(c, items, t) ==
    [c EXCEPT !.items = @ \o items, !.updatedAt = t]

\* Faulty variant: the update leaves updatedAt as it was.
CartUpdateStale(c, items, t) == [c EXCEPT !.items = items]

\* { items: req.body.items, updatedAt: Date.now() }
CartUpdate(c, items, t) == [c EXCEPT !.items = items, !.updatedAt = t]

\* Faulty variant: every write inserts a document (a create, not an upsert,
\* into a collection without the unique index).
UpsertInsert(sid, items, t) ==
    {Insert(carts, [sessionId |-> sid, items |-> items, updatedAt |-> t])}

\* findOneAndUpdate(..., { upsert: true, new: true }) under the unique
\* index of cartSchema.sessionId: the store serves it as one operation.
Upsert(sid, items, t) ==
    IF FindCarts(sid) = {}
    THEN {Insert(carts, [sessionId |-> sid, items |-> items, updatedAt |-> t])}
    ELSE {Replace(carts, c, CartUpdate(c, items, t)) : c \in FindCarts(sid)}

\* Up to the await: the update document, Date.now() included, is built.
CartRequest(sid, items, t) ==
    [op |-> "cartReplace", sessionId |-> sid, items |-> items,
     updatedAt |-> t]

\* await Cart.findOneAndUpdate(...), then 200 { success: true }.
CartWrite(q) ==
    /\ carts' \in Upsert(q.sessionId, q.items, q.updatedAt)
    /\ last' = [op |-> "cartReplace", code |-> 200, success |-> TRUE,
                sessionId |-> q.sessionId, items |-> q.items]
    /\ audit' = [audit EXCEPT
                    !.cartSet[q.sessionId] =
                       Some([items |-> q.items,
                             over |-> {c.items : c \in FindCarts(q.sessionId)},
                             late |-> \E c \in FindCarts(q.sessionId) :
                                         c.updatedAt > q.updatedAt,
                             at |-> now]),
                    !.cartEnd[q.sessionId] = None]

CartReplace(sid, items) ==
    /\ listening
    /\ CartWrite(CartRequest(sid, items, now))
    /\ UNCHANGED <<conn, listening, adminEnv, now, orders, pending>>

CartReplaceBegin(sid, items) ==
    /\ CanAccept
    /\ pending' = Insert(pending, CartRequest(sid, items, now))
    /\ UNCHANGED <<conn, listening, adminEnv, now, orders, carts, last, audit>>

CartReplaceEnd(q) ==
    /\ q.op = "cartReplace"
    /\ BagIn(q, pending)
    /\ pending' = Remove(pending, q)
    /\ CartWrite(q)
    /\ UNCHANGED <<conn, listening, adminEnv, now, orders>>

\* Faulty variant: Cart.deleteMany({}) removes every cart.
DeleteAll(sid) == {EmptyBag}

\* DELETE: Cart.deleteOne({ sessionId }) removes at most one document.
DeleteOne(sid) ==
    IF FindCarts(sid) = {} THEN {carts}
    ELSE {Remove(carts, c) : c \in FindCarts(sid)}

CartClear(sid) ==
    /\ listening
    /\ carts' \in DeleteOne(sid)
    /\ last' = [op |-> "cartClear", code |-> 200, success |-> TRUE,
                sessionId |-> sid]
    /\ audit' = [audit EXCEPT !.cartSet[sid] = None,
                              !.cartEnd[sid] = Some("cleared")]
    /\ UNCHANGED <<conn, listening, adminEnv, now, orders, pending>>

\* updatedAt: { expires: 86400 }: the store's TTL monitor deletes a cart
\* some time after updatedAt + 86400 s has passed.
Expired(c) == c.updatedAt + ExpireMs <= now

ExpireCart(c) ==
    /\ BagIn(c, carts)
    /\ Expired(c)
    /\ carts' = Remove(carts, c)
    /\ audit' = [audit EXCEPT !.cartSet[c.sessionId] = None,
                              !.cartEnd[c.sessionId] = Some("purged")]
    /\ UNCHANGED <<conn, listening, adminEnv, now, orders, pending, last>>

ExpireSome == \E c \in Docs(carts) : ExpireCart(c)

----------------------------------------------------------------------------

Next ==
    \/ ConnectOk
    \/ ConnectFail
    \/ Tick(1)
    \/ \E p \in Payloads, r \in RandDraws : Create(p, r)
    \/ \E id \in TargetIds : UploadNoFile(id)
    \/ \E id \in TargetIds, pr \in Protocols, h \in Hosts, e \in FileExts :
          AttachReceipt(id, pr, h, e)
    \/ \E id \in TargetIds, st \in StatusInputs : UpdateStatus(id, st)
    \/ \E id \in TargetIds : Track(id)
    \/ ListAll

Spec == Init /\ [][Next]_vars

NextConcurrent ==
    \/ ConnectOk
    \/ Tick(1)
    \/ \E p \in Payloads, r \in RandDraws : CreateBegin(p, r)
    \/ \E q \in BagToSet(pending) : CreateEnd(q)
    \/ \E id \in TargetIds, st \in StatusInputs : UpdateStatus(id, st)

Concurrent == Init /\ [][NextConcurrent]_vars

NextCart ==
    \/ ConnectOk
    \/ \E d \in TickSteps : Tick(d)
    \/ \E sid \in Sessions : CartGet(sid)
    \/ \E sid \in Sessions, items \in ItemSeqs : CartReplace(sid, items)
    \/ \E sid \in Sessions : CartClear(sid)
    \/ ExpireSome

CartSpec == Init /\ [][NextCart]_vars

\* The cart endpoints with a store whose TTL monitor keeps running: an
\* expired cart does not stay for ever.
FairCartSpec == CartSpec /\ WF_vars(ExpireSome)

\* Replace split at its await, with Clear and other Replaces interleaved
\* between the two parts.
NextCartConcurrent ==
    \/ ConnectOk
    \/ Tick(1)
    \/ \E sid \in Sessions, items \in RacingItems :
          CartReplaceBegin(sid, items)
    \/ \E q \in BagToSet(pending) : CartReplaceEnd(q)
    \/ \E sid \in Sessions : CartClear(sid)

CartConcurrent == Init /\ [][NextCartConcurrent]_vars

\* The admin endpoints, with orders to administer, under either setting of
\* ADMIN_PASSWORD.
NextAdmin ==
    \/ ConnectOk
    \/ ConnectFail
    \/ Tick(1)
    \/ \E p \in Payloads, r \in RandDraws : Create(p, r)
    \/ \E pw \in PasswordInputs : Login(pw)
    \/ ListAll
    \/ \E id \in TargetIds, st \in StatusInputs : UpdateStatus(id, st)

AdminSpec == InitAdmin /\ [][NextAdmin]_vars

\* The admin endpoints as a client may call them: with or without the
\* token, before or after any login attempts.
NextGate ==
    \/ ConnectOk
    \/ ConnectFail
    \/ \E p \in Payloads, r \in RandDraws : Create(p, r)
    \/ \E pw \in PasswordInputs : LoginNoted(pw)
    \/ \E token \in Tokens : AdminListAll(token)
    \/ \E token \in Tokens, id \in TargetIds, st \in StatusInputs :
          AdminUpdateStatus(token, id, st)

GateSpec == InitAdmin /\ [][NextGate]_vars

\* Every kind of request against one store: the order endpoints together
\* with login and the cart endpoints, one request of each kind of input.
NextShop ==
    \/ ConnectOk
    \/ Tick(1)
    \/ \E p \in Payloads, r \in RandDraws : Create(p, r)
    \/ \E id \in TargetIds : AttachReceipt(id, "https", "equine.example", ".jpg")
    \/ \E id \in TargetIds : UpdateStatus(id, "Shipped")
    \/ \E id \in TargetIds : Track(id)
    \/ ListAll
    \/ Login(DefaultPassword)
    \/ CartGet("s1")
    \/ CartReplace("s1", <<"saddle">>)
    \/ CartClear("s1")

ShopSpec == Init /\ [][NextShop]_vars

----------------------------------------------------------------------------
(* Properties *)

StoredWithId(id) == {d \in Docs(orders) : d.orderId = id}

\* 'EQ-' + a 4-digit number in [1000,9999] + '-' + a 3-digit number in
\* [100,999].
IsGeneratedId(s) ==
    /\ Len(s) = 11
    /\ SubSeq(s, 1, 3) = <<"E", "Q", "-">>
    /\ IsDigits(SubSeq(s, 4, 7))
    /\ StrToNum(SubSeq(s, 4, 7)) \in 1000..9999
    /\ s[8] = "-"
    /\ IsDigits(SubSeq(s, 9, 11))
    /\ StrToNum(SubSeq(s, 9, 11)) \in 100..999

\* C1 as stated: every Create of a payload without orderId (here: of one
\* that passes schema validation) answers 201 with an id of the generated
\* format, persists the order, and a later track of that id finds it.
C1_Original ==
    (last.op = "create" /\ last.generated /\ last.valid) =>
        /\ last.code = 201
        /\ IsGeneratedId(last.orderId)
        /\ StoredWithId(last.orderId) # {}
        /\ \A t \in TrackResponses(last.orderId) : t.code = 200

\* C1 as amended: a Create of a payload without orderId draws an id of the
\* format EQ-####-###; unless the save is rejected (the payload fails schema
\* validation, or a stored order already has that id) it persists the order
\* and answers 201 with that id, and every later track of an id answered
\* with 201 finds the record; a rejected save answers 500 and persists
\* nothing (the stored orders are exactly one per id answered with 201).
C1_CreateGenerated ==
    /\ (last.op = "create" /\ last.generated) =>
          /\ IsGeneratedId(last.orderId)
          /\ last.code \in {201, 500}
          /\ last.code = 201 =>
                /\ last.valid
                /\ last.success
                /\ StoredWithId(last.orderId) = {last.order}
                /\ \A t \in TrackResponses(last.orderId) : t.code = 200
          /\ last.code = 500 =>
                /\ ~last.success
                /\ ~last.valid \/ StoredWithId(last.orderId) # {}
    /\ {d.orderId : d \in Docs(orders)} = audit.created
    /\ BagCardinality(orders) = Cardinality(audit.created)
    /\ (last.op = "track" /\ last.orderId \in audit.created) =>
          /\ last.code = 200
          /\ last.body[1].orderId = last.orderId

\* A generated id (IdHigh is never supplied) was answered 201 and tracked.
C1_Witness ==
    /\ last.op = "track"
    /\ last.orderId = IdHigh
    /\ last.orderId \in audit.created
    /\ last.code = 200

\* C2: an AttachReceipt with a file on an existing order, whatever its
\* status was, leaves it with status 'Pending Verification' and receiptImg
\* the URL built for the uploaded file (scheme://host/uploads/
\* receipt-<time><ext>), other fields as they were; so does a second one,
\* with the most recent URL.
C2_AttachReceipt ==
    (last.op = "upload" /\ last.before # None) =>
        LET d == last.order[1]
            url == last.fileUrl[1]
        IN /\ last.code = 200
           /\ StoredWithId(last.orderId) = {d}
           /\ d.status = "Pending Verification"
           /\ d.receiptImg = last.fileUrl
           /\ url[1] \in Protocols /\ url[2] = "://" /\ url[3] \in Hosts
           /\ url[4] = "/uploads/"
           /\ url[5][1] = "receipt-" /\ url[5][2] \in 0..now
           /\ url[5][3] \in FileExts
           /\ d = [last.before[1] EXCEPT !.status = "Pending Verification",
                                         !.receiptImg = last.fileUrl]

\* A second upload on an order that already had a receipt and an
\* admin-set status, with a different file.
C2_Witness ==
    /\ last.op = "upload"
    /\ last.before # None
    /\ last.before[1].receiptImg # None
    /\ last.before[1].receiptImg # last.fileUrl
    /\ last.before[1].status = "Shipped"

\* C3: UpdateStatus on an existing order stores exactly the supplied status
\* (whatever the status was, no lattice) and returns the updated record; a
\* track of that order after the update, with no write to the order in
\* between, reports that status.
C3_UpdateStatus ==
    /\ (last.op = "status" /\ last.before # None) =>
          /\ last.code = 200
          /\ last.order[1].status = last.status
          /\ last.order[1] = [last.before[1] EXCEPT !.status = last.status]
          /\ StoredWithId(last.orderId) = {last.order[1]}
    /\ (last.op = "track" /\ audit.statusSet[last.orderId] # None) =>
          /\ last.code = 200
          /\ last.body[1].status = audit.statusSet[last.orderId][1]

\* A track that follows a backward update (to 'Awaiting Payment') of an
\* order that had a receipt.
C3_Witness ==
    /\ last.op = "track"
    /\ audit.statusSet[last.orderId] = Some("Awaiting Payment")
    /\ \E d \in StoredWithId(last.orderId) : d.receiptImg # None

\* C4: track answers 404 with success=false exactly when no stored order
\* has exactly that orderId, and otherwise 200 with that order's status,
\* customer name, total, orderId and createdAt; never 500.
C4_Track ==
    last.op = "track" =>
        IF StoredWithId(last.orderId) = {}
        THEN last.code = 404 /\ ~last.success /\ last.body = None
        ELSE /\ last.code = 200
             /\ last.success
             /\ \E d \in StoredWithId(last.orderId) :
                   last.body = Some([status |-> d.status,
                                     customerName |-> d.customerName,
                                     total |-> d.total,
                                     orderId |-> d.orderId,
                                     createdAt |-> d.createdAt])

\* A track of 'EQ-1000' is not found while 'EQ-1000-100' is stored.
C4_Witness ==
    /\ last.op = "track"
    /\ last.orderId = IdShort
    /\ last.code = 404
    /\ StoredWithId(IdLow) # {}

Occurrences(s, d) == Cardinality({i \in 1..Len(s) : s[i] = d})

\* C7: ListAll returns every stored order exactly once, newest first
\* (createdAt non-increasing along the list).
C7_ListAll ==
    last.op = "list" =>
        /\ last.code = 200
        /\ Len(last.body) = BagCardinality(orders)
        /\ \A d \in Docs(orders) :
              Occurrences(last.body, d) = CopiesIn(d, orders)
        /\ \A i \in 1..Len(last.body), j \in 1..Len(last.body) :
              i < j => last.body[i].createdAt >= last.body[j].createdAt

\* A list of several orders with distinct creation times.
C7_Witness ==
    /\ last.op = "list"
    /\ Len(last.body) >= 2
    /\ \A i \in 1..(Len(last.body) - 1) :
          last.body[i].createdAt > last.body[i + 1].createdAt

\* C5: after Replace(s, I), with no later Replace, Clear or expiry of s, the
\* store holds one cart for s with exactly the items I, whatever it held
\* before, and Get(s) returns exactly I.
C5_ReplaceThenGet ==
    /\ \A sid \in Sessions :
          audit.cartSet[sid] # None =>
             /\ {c.items : c \in {x \in Docs(carts) : x.sessionId = sid}}
                   = {audit.cartSet[sid][1].items}
             /\ \A c \in Docs(carts) :
                   c.sessionId = sid => CopiesIn(c, carts) = 1
    /\ (last.op = "cartGet" /\ last.known # None) =>
          /\ last.code = 200
          /\ last.body.sessionId = last.sessionId
          /\ last.body.items = last.known[1].items

\* A Get after a Replace with <<saddle>> of a cart that held
\* <<bridle, saddle>>.
C5_Witness ==
    /\ last.op = "cartGet"
    /\ last.known # None
    /\ last.known[1].items = <<"saddle">>
    /\ last.known[1].over = {<<"bridle", "saddle">>}

\* C6: Get of a session with no stored cart (never replaced, or cleared or
\* expired since) answers 200 with { sessionId, items: [] } and stores no
\* cart for the session.
C6_GetWithoutCart ==
    (last.op = "cartGet" /\ last.known = None) =>
        /\ last.code = 200
        /\ last.body = [sessionId |-> last.sessionId, items |-> <<>>]
        /\ {c \in Docs(carts) : c.sessionId = last.sessionId} = {}

\* A Get of a session without cart while another session has one.
C6_Witness ==
    /\ last.op = "cartGet"
    /\ last.known = None
    /\ \E c \in Docs(carts) : c.sessionId # last.sessionId

\* C8: login answers 200 with the token exactly when the submitted password
\* equals the configured secret, or the default 'equineadmin123' when none
\* is configured; anything else, a missing password too, is answered 401.
C8_Login ==
    last.op = "login" =>
        LET expected == IF adminEnv = <<>>
                        THEN <<"e", "q", "u", "i", "n", "e", "a", "d", "m",
                               "i", "n", "1", "2", "3">>
                        ELSE adminEnv
        IN IF last.password = expected
           THEN /\ last.code = 200
                /\ last.success
                /\ last.token = Some("secure_admin_session_active")
           ELSE /\ last.code = 401
                /\ ~last.success
                /\ last.token = None

\* The default password is refused once a secret is configured.
C8_Witness ==
    /\ last.op = "login"
    /\ adminEnv # None
    /\ last.password = DefaultPassword
    /\ last.code = 401

\* C9: no two stored orders share an orderId, however concurrent Creates
\* interleave.
C9_UniqueOrderId ==
    \A d \in Docs(orders) :
        /\ CopiesIn(d, orders) = 1
        /\ \A e \in Docs(orders) : e.orderId = d.orderId => e = d

\* Two Creates with one id were in flight together: the one answered 500
\* had built its document before the stored one was even constructed.
C9_Witness ==
    /\ last.op = "create"
    /\ last.code = 500
    /\ last.valid
    /\ \E d \in Docs(orders) :
          /\ d.orderId = last.orderId
          /\ last.order.createdAt < d.createdAt

\* C10 as stated: an upload for an orderId no stored order has is answered
\* 500, not success.
C10_Original ==
    (last.op = "upload" /\ StoredWithId(last.orderId) = {}) =>
        (last.code = 500 /\ ~last.success)

\* C10 as amended: an upload with a file for an orderId no stored order has
\* is answered 200 with success=true, the file URL and a null order (500
\* only when the request carries no file), and changes no order.
C10_UploadMissingOrder ==
    /\ []((last.op = "upload" /\ StoredWithId(last.orderId) = {}) =>
             IF last.fileUrl = None
             THEN last.code = 500 /\ ~last.success
             ELSE last.code = 200 /\ last.success /\ last.order = None)
    /\ [][(last'.op = "upload" /\ StoredWithId(last'.orderId) = {})
             => orders' = orders]_vars

\* An upload with a file for a missing order, while other orders exist.
C10_Witness ==
    /\ last.op = "upload"
    /\ last.fileUrl # None
    /\ StoredWithId(last.orderId) = {}
    /\ orders # EmptyBag

\* C11 as stated: a track of an order after a receipt upload on it (no
\* status update since) shows status 'Pending Verification' and shows the
\* non-null receiptImg URL of that upload.
C11_Original ==
    (last.op = "track" /\ audit.receiptSet[last.orderId] # None) =>
        /\ last.code = 200
        /\ last.body[1].status = "Pending Verification"
        /\ "receiptImg" \in DOMAIN last.body[1]
        /\ last.body[1].receiptImg # None
        /\ last.body[1].receiptImg = audit.receiptSet[last.orderId]

\* C11 as amended: a track of an order after a receipt upload on it (no
\* status update since) answers 200 with status 'Pending Verification'; the
\* URL of the upload is on the stored order, but the track response consists
\* of status, customerName, total, orderId and createdAt and carries no
\* receiptImg.
C11_TrackAfterUpload ==
    (last.op = "track" /\ audit.receiptSet[last.orderId] # None) =>
        /\ last.code = 200
        /\ last.success
        /\ last.body[1].status = "Pending Verification"
        /\ DOMAIN last.body[1] =
              {"status", "customerName", "total", "orderId", "createdAt"}
        /\ StoredWithId(last.orderId) # {}
        /\ \A d \in StoredWithId(last.orderId) :
              /\ d.receiptImg = audit.receiptSet[last.orderId]
              /\ d.receiptImg # None

\* A track of an order that carries a receipt, uploaded after the order
\* was created with status 'Awaiting Payment'.
C11_Witness ==
    /\ last.op = "track"
    /\ last.code = 200
    /\ audit.receiptSet[last.orderId] # None
    /\ \E o \in audit.origin :
          o.orderId = last.orderId /\ o.status = "Awaiting Payment"

\* C12: an order once created stays stored, once, and its orderId,
\* createdAt and every field other than status and receiptImg stay what
\* Create stored, whatever order, login and cart requests follow; nothing
\* else is ever stored as an order.
C12_OrdersKeepCreation ==
    /\ \A o \in audit.origin :
          \E d \in Docs(orders) :
             /\ d.orderId = o.orderId
             /\ d.createdAt = o.createdAt
             /\ [d EXCEPT !.status = o.status, !.receiptImg = o.receiptImg]
                   = o
             /\ CopiesIn(d, orders) = 1
    /\ BagCardinality(orders) = Cardinality(audit.origin)

\* A cart request served after an order had its status updated and a
\* receipt attached, while a younger order is stored untouched.
C12_Witness ==
    /\ last.op = "cartClear"
    /\ \E o \in audit.origin, d \in Docs(orders) :
          /\ d.orderId = o.orderId
          /\ d.status = "Shipped"
          /\ d.status # o.status
          /\ d.receiptImg # None
          /\ \E e \in Docs(orders) : e \in audit.origin /\ e.createdAt > d.createdAt

\* C13 as stated: every order Create persists starts with the schema's
\* default status 'Pending Verification', receiptImg null and createdAt the
\* time of creation.
C13_Original ==
    (last.op = "create" /\ last.code = 201) =>
        /\ last.order.status = "Pending Verification"
        /\ last.order.receiptImg = None
        /\ last.order.createdAt \in 0..now

\* An id of the format EQ-#### or EQ-####-###, digits only.
IsOrderIdFormat(s) ==
    /\ Len(s) \in {7, 11}
    /\ SubSeq(s, 1, 3) = <<"E", "Q", "-">>
    /\ IsDigits(SubSeq(s, 4, 7))
    /\ Len(s) = 11 => s[8] = "-" /\ IsDigits(SubSeq(s, 9, 11))

\* C14 as stated: every stored order's orderId has the format EQ-#### or
\* EQ-####-###, generated or supplied.
C14_Original == \A d \in Docs(orders) : IsOrderIdFormat(d.orderId)

\* C15: at most one cart is stored per sessionId however Replace and Clear
\* requests interleave, and once a Replace has landed the stored items are
\* exactly the items of the Replace that landed last, never a merge.
C15_OneCartPerSession ==
    \A sid \in Sessions :
        LET stored == {c \in Docs(carts) : c.sessionId = sid}
        IN /\ Cardinality(stored) <= 1
           /\ \A c \in stored : CopiesIn(c, carts) = 1
           /\ audit.cartSet[sid] # None =>
                 /\ stored # {}
                 /\ \A c \in stored :
                       /\ c.items = audit.cartSet[sid][1].items
                       /\ c.items \in RacingItems

\* Two Replaces of one session overlapped and both completed: the one that
\* landed last had built its update before the one it overwrote.
C15_Witness ==
    /\ pending = EmptyBag
    /\ \E c \in Docs(carts) :
          /\ audit.cartSet[c.sessionId] # None
          /\ c.items \notin audit.cartSet[c.sessionId][1].over
          /\ audit.cartSet[c.sessionId][1].late

\* A cart whose last write lies 86,400 s or more back.
Outlived(c) == now - c.updatedAt >= 86400 * 1000
HasOutlived(sid) == \E c \in Docs(carts) : c.sessionId = sid /\ Outlived(c)

\* C16: a Replace sets updatedAt to the time of the write; a Get changes no
\* cart; a cart leaves the store without a Clear only when 86,400 s have
\* passed since its last Replace; a cart whose window has passed is
\* eventually removed (unless a Replace renews it); a Get after the purge
\* returns the empty cart.
C16_CartRetention ==
    /\ [](\A sid \in Sessions :
             audit.cartSet[sid] # None =>
                \A c \in Docs(carts) :
                   c.sessionId = sid =>
                      c.updatedAt = audit.cartSet[sid][1].at)
    /\ []((last.op = "cartGet" /\ last.ended = Some("purged")) =>
             /\ last.code = 200
             /\ last.body = [sessionId |-> last.sessionId, items |-> <<>>])
    /\ [][(last' # last /\ last'.op = "cartGet") => carts' = carts]_vars
    /\ [][\A c \in Docs(carts) :
             (/\ last' = last
              /\ \A x \in Docs(carts') : x.sessionId # c.sessionId)
                => Outlived(c)]_vars
    /\ \A sid \in Sessions : HasOutlived(sid) ~> ~HasOutlived(sid)

\* A Get after the purge of a session's cart, while the other session's
\* cart, written within the last 86,400 s, is still stored.
C16_Witness ==
    /\ last.op = "cartGet"
    /\ last.ended = Some("purged")
    /\ \E c \in Docs(carts) :
          c.sessionId # last.sessionId /\ ~Outlived(c)

\* C17: Clear answers 200 with success=true whether or not the session has
\* a cart, removes that session's cart and leaves the other carts as they
\* are; a Get of the session after a Clear, with no Replace in between,
\* returns no items.
C17_Clear ==
    /\ [](last.op = "cartClear" => last.code = 200 /\ last.success)
    /\ []((last.op = "cartGet" /\ last.ended = Some("cleared")) =>
             /\ last.code = 200
             /\ last.body.items = <<>>)
    /\ [][(last' # last /\ last'.op = "cartClear") =>
             carts' = [c \in {x \in Docs(carts) :
                                 x.sessionId # last'.sessionId}
                          |-> CopiesIn(c, carts)]]_vars

\* A Get after a Clear of a session, the other session's cart still stored.
C17_Witness ==
    /\ last.op = "cartGet"
    /\ last.ended = Some("cleared")
    /\ \E c \in Docs(carts) : c.sessionId # last.sessionId

\* C18: an UpdateStatus for an orderId no stored order has changes no order,
\* adds none, and answers 200 with success=true and a null order.
C18_StatusMissingOrder ==
    [][(last'.op = "status" /\ StoredWithId(last'.orderId) = {}) =>
          /\ orders' = orders
          /\ last'.code = 200
          /\ last'.success
          /\ last'.order = None]_vars

\* A status update for a missing order, while other orders exist.
C18_Witness ==
    /\ last.op = "status"
    /\ last.order = None
    /\ StoredWithId(last.orderId) = {}
    /\ orders # EmptyBag

\* C19: a Create whose orderId, generated or supplied, is that of a stored
\* order is answered 500 (no second draw, no retry), leaves the stored
\* order as it is and adds no order.
C19_CreateDuplicate ==
    [][(last' # last /\ last'.op = "create"
           /\ StoredWithId(last'.orderId) # {}) =>
          /\ last'.code = 500
          /\ ~last'.success
          /\ orders' = orders]_vars

\* A Create of a valid payload that draws the id a client had supplied for
\* a stored order, answered 500.
C19_Witness ==
    /\ last.op = "create"
    /\ last.code = 500
    /\ last.valid
    /\ last.generated
    /\ \E d \in StoredWithId(last.orderId) :
          d.customerName = "Ann" /\ d # last.order

\* C20 as stated: an order whose status is 'Awaiting Payment' changes to
\* another status only by an AttachReceipt on that order.
C20_Original ==
    [][\A d \in Docs(orders), e \in Docs(orders') :
          (d.status = "Awaiting Payment" /\ e.orderId = d.orderId
              /\ e.status # d.status) =>
             (last'.op = "upload" /\ last'.orderId = d.orderId)]_vars

\* C20 as amended: an order whose status is 'Awaiting Payment' changes to
\* another status only by an AttachReceipt on that order (to 'Pending
\* Verification') or by an UpdateStatus on that order (to the status
\* supplied), and by no other operation.
C20_LeavingAwaitingPayment ==
    [][\A d \in Docs(orders), e \in Docs(orders') :
          (d.status = "Awaiting Payment" /\ e.orderId = d.orderId
              /\ e.status # d.status) =>
             /\ last'.op \in {"upload", "status"}
             /\ last'.orderId = d.orderId
             /\ last'.op = "upload" => e.status = "Pending Verification"
             /\ last'.op = "status" => e.status = last'.status]_vars

\* An UpdateStatus moved an order without receipt from 'Awaiting Payment'
\* to 'Shipped'.
C20_Witness ==
    /\ last.op = "status"
    /\ last.before # None
    /\ last.before[1].status = "Awaiting Payment"
    /\ last.before[1].receiptImg = None
    /\ last.status = "Shipped"
    /\ last.order[1].status = "Shipped"

\* C21: ListAll and UpdateStatus are served whatever the login attempts so
\* far and whether or not a token comes with the request: never refused,
\* their response and their effect on the store are those the stored
\* orders and the request determine; a login changes no stored state.
C21_AdminGateAdvisory ==
    /\ [](last.op \in {"list", "status"} => last.code = 200)
    /\ [][(last' # last /\ last'.op = "list") =>
             /\ orders' = orders
             /\ Len(last'.body) = BagCardinality(orders)
             /\ \A d \in Docs(orders) :
                   Occurrences(last'.body, d) = CopiesIn(d, orders)]_vars
    /\ [][(last' # last /\ last'.op = "status") =>
             IF StoredWithId(last'.orderId) = {}
             THEN orders' = orders /\ last'.order = None
             ELSE \E d \in StoredWithId(last'.orderId) :
                     /\ last'.order = Some([d EXCEPT !.status = last'.status])
                     /\ orders' = (orders (-) SetToBag({d}))
                                     (+) SetToBag({last'.order[1]})]_vars
    /\ [][(last' # last /\ last'.op = "login") =>
             orders' = orders /\ carts' = carts /\ adminEnv' = adminEnv]_vars

\* An order's status was updated although every login so far had failed.
C21_Witness ==
    /\ last.op = "status"
    /\ last.code = 200
    /\ last.before # None
    /\ last.order[1].status # last.before[1].status
    /\ audit.logins = {FALSE}

\* C22: the server listens, and handles requests, only once the connection
\* has succeeded; after a failed connection attempt it never listens and
\* handles nothing.
C22_ListenAfterConnect ==
    /\ [](listening => conn = "connected")
    /\ [](last.op # "none" => conn = "connected")
    /\ [][last' # last => (conn = "connected" /\ listening)]_vars
    /\ [][conn = "failed" => (conn' = "failed" /\ ~listening')]_vars

\* The connection attempt has failed.
C22_Witness ==
    /\ conn = "failed"
    /\ ~listening
    /\ last.op = "none"
    /\ adminEnv # None

====
